---- MODULE Spec2Model ----
(***************************************************************************)
(* A model of the sfedits PII analyzer: the one-shot command               *)
(* (pii-analyzer.py) and the long-lived service (pii-service/app.py).      *)
(*                                                                         *)
(* Texts are sequences of one-character strings, offsets are 0-based as in *)
(* Python, spans are [start, end).  Scores are integers in thousandths     *)
(* (0.95 is 950).  The calls into presidio_analyzer (AnalyzerEngine and    *)
(* PatternRecognizer) are modelled by what the library does at the call    *)
(* sites; the predefined recognizers (e-mail, phone, URL, ...) are an      *)
(* external capability whose candidates are chosen nondeterministically.   *)
(***************************************************************************)
EXTENDS Integers, Sequences, FiniteSets, TLC

VARIABLES
    mode,          \* which front end this process is: "cli" or "service"
    detect,        \* candidates the predefined recognizers emit for the text
    failing,       \* recognizers that raise when they are run
    argv,          \* cli: sys.argv[1:], a sequence of texts
    cliPc,         \* cli: position in the __main__ block
    cliResults,    \* cli: `results` inside analyze_text_for_pii
    cliOut,        \* cli: what was printed
    cliExit,       \* cli: exit status
    phase,         \* service: "loading", "serving" or "failed"
    analyzer,      \* service: the module-level analyzer and its registry
    ready,         \* service: "Analyzer ready" was printed
    healthAnswered, \* service: a /health response was sent
    req,           \* service: per request, the request and its response
    frame          \* service: per handler frame, the handler's local variables

vars == <<mode, detect, failing, argv, cliPc, cliResults, cliOut, cliExit,
          phase, analyzer, ready, healthAnswered, req, frame>>


---------------------------------------------------------------------------
(* Characters and the regular-expression classes the patterns use.         *)

Digits == {"0", "1", "2", "3", "4", "5", "6", "7", "8", "9"}
LowerCase == <<"a", "b", "c", "d", "e", "f", "g", "h", "i", "j", "k", "l", "m",
               "n", "o", "p", "q", "r", "s", "t", "u", "v", "w", "x", "y", "z">>
UpperCase == <<"A", "B", "C", "D", "E", "F", "G", "H", "I", "J", "K", "L", "M",
               "N", "O", "P", "Q", "R", "S", "T", "U", "V", "W", "X", "Y", "Z">>
WhiteSpace == {" ", "\t", "\n", "\r"}

\* The character at 0-based offset i, or "" outside the text.
Ch(text, i) == IF i >= 0 /\ i < Len(text) THEN text[i + 1] ELSE ""

IsDigit(c) == c \in Digits
IsSpace(c) == c \in WhiteSpace
IsLetter(c) == \E k \in 1..26 : c = LowerCase[k] \/ c = UpperCase[k]
IsWord(c) == IsDigit(c) \/ IsLetter(c) \/ c = "_"

\* re.IGNORECASE: letters compare by their lower-case form.
Lower(c) == IF \E k \in 1..26 : c = UpperCase[k]
            THEN LowerCase[CHOOSE k \in 1..26 : c = UpperCase[k]]
            ELSE c

\* \b at offset i: exactly one of the characters around it is a word character.
WordBoundary(text, i) == IsWord(Ch(text, i - 1)) # IsWord(Ch(text, i))

\* \d{n} at offset i.
DigitRun(text, i, n) == \A k \in 0..(n - 1) : IsDigit(Ch(text, i + k))

---------------------------------------------------------------------------
(* create_custom_ssn_recognizer: the four patterns and their scores.       *)

ssn_with_dashes_score == 900
ssn_with_spaces_score == 900
ssn_no_separators_score == 700
ssn_with_context_score == 950

PatternNames == <<"ssn_with_dashes", "ssn_with_spaces", "ssn_no_separators",
                  "ssn_with_context">>

PatternScore(p) ==
    CASE p = "ssn_with_dashes" -> ssn_with_dashes_score
      [] p = "ssn_with_spaces" -> ssn_with_spaces_score
      [] p = "ssn_no_separators" -> ssn_no_separators_score
      [] p = "ssn_with_context" -> ssn_with_context_score

\* The keyword alternatives of ssn_with_context, in the regex's order.
ContextKeywords ==
    << <<"s", "s", "n">>,
       <<"s", "o", "c", "i", "a", "l", " ", "s", "e", "c", "u", "r", "i", "t", "y",
         " ", "n", "u", "m", "b", "e", "r">>,
       <<"s", "o", "c", "i", "a", "l", " ", "s", "e", "c", "u", "r", "i", "t", "y">>,
       <<"s", "s", "#">> >>

\* r"\b\d{3}-\d{2}-\d{4}\b" tried at offset s: the end of the match, or -1.
DashesEnd(text, s) ==
    IF /\ WordBoundary(text, s)
       /\ DigitRun(text, s, 3)
       /\ Ch(text, s + 3) = "-"
       /\ DigitRun(text, s + 4, 2)
       /\ Ch(text, s + 6) = "-"
       /\ DigitRun(text, s + 7, 4)
       /\ WordBoundary(text, s + 11)
    THEN s + 11 ELSE -1

\* r"\b\d{3}\s\d{2}\s\d{4}\b" tried at offset s.
SpacesEnd(text, s) ==
    IF /\ WordBoundary(text, s)
       /\ DigitRun(text, s, 3)
       /\ IsSpace(Ch(text, s + 3))
       /\ DigitRun(text, s + 4, 2)
       /\ IsSpace(Ch(text, s + 6))
       /\ DigitRun(text, s + 7, 4)
       /\ WordBoundary(text, s + 11)
    THEN s + 11 ELSE -1

\* r"\b\d{9}\b" tried at offset s.
NoSeparatorsEnd(text, s) ==
    IF /\ WordBoundary(text, s)
       /\ DigitRun(text, s, 9)
       /\ WordBoundary(text, s + 9)
    THEN s + 9 ELSE -1

\* A keyword matched case-insensitively at offset s.
KeywordAt(text, s, kw) ==
    \A k \in 1..Len(kw) : Lower(Ch(text, s + k - 1)) = kw[k]

IsContextSep(c) == IsSpace(c) \/ c = ":" \/ c = "="
IsGroupSep(c) == c = "-" \/ IsSpace(c)

\* [-\s]? at offset i: the separator is taken exactly when it is there.
SkipGroupSep(text, i) == IF IsGroupSep(Ch(text, i)) THEN i + 1 ELSE i

\* (\d{3}[-\s]?\d{2}[-\s]?\d{4}) tried at offset q: its end, or -1.
NumericGroupEnd(text, q) ==
    LET a == SkipGroupSep(text, q + 3)
        b == SkipGroupSep(text, a + 2)
    IN  IF DigitRun(text, q, 3) /\ DigitRun(text, a, 2) /\ DigitRun(text, b, 4)
        THEN b + 4 ELSE -1

\* [\s:=]+ at offset p is greedy and a digit must follow: it takes the whole run.
RECURSIVE ContextSepEnd(_, _)
ContextSepEnd(text, p) ==
    IF IsContextSep(Ch(text, p)) THEN ContextSepEnd(text, p + 1) ELSE p

\* The pattern after keyword kw, tried at offset s.
ContextEndVia(text, s, kw) ==
    LET p == s + Len(kw)
        q == ContextSepEnd(text, p)
    IN  IF KeywordAt(text, s, kw) /\ q > p THEN NumericGroupEnd(text, q) ELSE -1

\* r"(?:ssn|social security number|social security|ss#)[\s:=]+(\d{3}...)" tried
\* at offset s: the first alternative that lets the whole pattern match.
ContextEnd(text, s) ==
    LET ok == {k \in 1..Len(ContextKeywords) :
                   ContextEndVia(text, s, ContextKeywords[k]) # -1}
    IN  IF ok = {} THEN -1
        ELSE ContextEndVia(text, s,
                 ContextKeywords[CHOOSE k \in ok : \A j \in ok : k <= j])

\* Where the numeric group of an ssn_with_context match at s begins.
ContextGroupStart(text, s) ==
    LET ok == {k \in 1..Len(ContextKeywords) :
                   ContextEndVia(text, s, ContextKeywords[k]) # -1}
        kw == ContextKeywords[CHOOSE k \in ok : \A j \in ok : k <= j]
    IN  ContextSepEnd(text, s + Len(kw))

MatchEnd(text, p, s) ==
    CASE p = "ssn_with_dashes" -> DashesEnd(text, s)
      [] p = "ssn_with_spaces" -> SpacesEnd(text, s)
      [] p = "ssn_no_separators" -> NoSeparatorsEnd(text, s)
      [] p = "ssn_with_context" -> ContextEnd(text, s)

---------------------------------------------------------------------------
(* presidio_analyzer as the two programs call it.                          *)

\* re's finditer from offset pos: leftmost matches, none overlapping another.
RECURSIVE FindIter(_, _, _)
FindIter(text, p, pos) ==
    LET starts == {s \in pos..(Len(text) - 1) : MatchEnd(text, p, s) # -1}
    IN  IF starts = {} THEN {}
        ELSE LET s == CHOOSE x \in starts : \A y \in starts : x <= y
                 e == MatchEnd(text, p, s)
             IN  {<<s, e>>} \cup FindIter(text, p, e)

\* The entity types of the model, in a fixed order (it breaks ties in sorting).
EntityTypes == <<"CREDIT_CARD", "CUSTOM_SSN", "EMAIL_ADDRESS", "PHONE_NUMBER", "URL">>
TypeRank(t) == CHOOSE k \in 1..Len(EntityTypes) : EntityTypes[k] = t

\* RecognizerResult.contained_in
ContainedIn(r, other) == r.start >= other.start /\ r.end <= other.end

Overlaps(a, b) == a.start < b.end /\ b.start < a.end

\* The sort key of remove_duplicates: (-score, start, -(end - start)); results
\* that agree on all three differ in type only and are put in type order.
SortsBefore(x, y) ==
    \/ x.score > y.score
    \/ x.score = y.score /\ x.start < y.start
    \/ x.score = y.score /\ x.start = y.start /\ x.end > y.end
    \/ /\ x.score = y.score /\ x.start = y.start /\ x.end = y.end
       /\ TypeRank(x.entity_type) < TypeRank(y.entity_type)

RECURSIVE SortResults(_)
SortResults(S) ==
    IF S = {} THEN << >>
    ELSE LET m == CHOOSE x \in S : \A y \in S \ {x} : SortsBefore(x, y)
         IN  <<m>> \o SortResults(S \ {m})

\* remove_duplicates without its containment test.
DroppedByNoContainment(result, filtered) == result.score = 0

\* Whether remove_duplicates drops `result` given the results kept so far.
DroppedBy(result, filtered) ==
    \/ result.score = 0
    \/ \E k \in 1..Len(filtered) :
           /\ ContainedIn(result, filtered[k])
           /\ result.entity_type = filtered[k].entity_type

RECURSIVE KeepResults(_, _)
KeepResults(sorted, filtered) ==
    IF sorted = << >> THEN filtered
    ELSE KeepResults(Tail(sorted),
             IF DroppedBy(Head(sorted), filtered) THEN filtered
             ELSE Append(filtered, Head(sorted)))

\* EntityRecognizer.remove_duplicates on a pool of candidates.
RemoveDuplicates(S) == KeepResults(SortResults(S), << >>)

\* The score filter left out.
RemoveLowScoresUnfiltered(results, threshold) == results

\* AnalyzerEngine's score filter.
RemoveLowScores(results, threshold) ==
    SelectSeq(results, LAMBDA r : r.score >= threshold)

\* PatternRecognizer.analyze for the recognizer create_custom_ssn_recognizer
\* builds: every match of every pattern, as a CUSTOM_SSN result spanning the
\* whole match, then remove_duplicates.
PatternMatches(text) ==
    UNION {
        {[entity_type |-> "CUSTOM_SSN", start |-> m[1], end |-> m[2],
          score |-> PatternScore(PatternNames[k])] :
             m \in FindIter(text, PatternNames[k], 0)}
        : k \in 1..Len(PatternNames) }

create_custom_ssn_recognizer(text) == RemoveDuplicates(PatternMatches(text))

SeqRange(s) == {s[k] : k \in 1..Len(s)}

\* The recognizers of the model and the entity each supports.
PredefinedRecognizers == {"EmailRecognizer", "PhoneRecognizer", "UrlRecognizer"}
CustomRecognizer == "CustomSSNRecognizer"

SupportedEntity(rec) ==
    CASE rec = "EmailRecognizer" -> "EMAIL_ADDRESS"
      [] rec = "PhoneRecognizer" -> "PHONE_NUMBER"
      [] rec = "UrlRecognizer" -> "URL"
      [] rec = "CustomSSNRecognizer" -> "CUSTOM_SSN"

---------------------------------------------------------------------------
(* The inputs the model draws from.                                        *)

T_Empty == << >>
T_SsnContext == <<"S", "S", "N", ":", " ", "1", "2", "3", "-", "4", "5", "-",
                  "6", "7", "8", "9">>
T_SsnRun == <<"s", "s", "n", " ", "1", "2", "3", "-", "4", "5", "-", "6", "7",
              "8", "9", "0", "1", "2", "3", "4">>
T_Spaced == <<"1", "2", "3", " ", "4", "5", " ", "6", "7", "8", "9">>
T_NineDigits == <<"n", " ", "1", "2", "3", "4", "5", "6", "7", "8", "9">>
T_Plain == <<"h", "i", " ", "a", "@", "b", ".", "c", "o">>

CliTexts == {T_Empty, T_SsnContext, T_SsnRun, T_Spaced, T_NineDigits, T_Plain}
ServiceTexts == {T_Empty, T_Plain}

\* At most MaxExternal candidates come from the predefined recognizers.
MaxExternal == 2
\* The offsets their spans start and end at.
ExternalOffsets == {0, 1, 2}
CliExternalTypes == {"EMAIL_ADDRESS", "PHONE_NUMBER"}
CliExternalScores == {300, 404, 1000}
ServiceExternalTypes == {"EMAIL_ADDRESS", "URL"}
ServiceExternalScores == {500, 1000}

ExternalPool(types, scores, len) ==
    {[entity_type |-> t, start |-> a, end |-> b, score |-> sc] :
        t \in types, a \in ExternalOffsets,
        b \in {x \in ExternalOffsets : x <= len}, sc \in scores}

RECURSIVE SubsetsUpTo(_, _)
SubsetsUpTo(S, k) ==
    IF k = 0 THEN {{}}
    ELSE LET prev == SubsetsUpTo(S, k - 1)
         IN  prev \cup {s \cup {x} : s \in prev, x \in S}

ExternalChoices(types, scores, len) ==
    SubsetsUpTo({c \in ExternalPool(types, scores, len) : c.start < c.end},
                MaxExternal)

\* Concurrent /analyze requests.
Requests == {"r1", "r2"}

BlockedValues == {<< >>, <<"EMAIL_ADDRESS">>, <<"URL">>, <<"URL", "EMAIL_ADDRESS">>}

\* What request.get_json() returns: None, a JSON object or a JSON array.
NoData == [kind |-> "null", items |-> << >>, has_text |-> FALSE, text |-> << >>,
           has_blocked |-> FALSE, blocked |-> << >>]
ObjectData(has_text, text, has_blocked, blocked) ==
    [kind |-> "object", items |-> << >>, has_text |-> has_text, text |-> text,
     has_blocked |-> has_blocked, blocked |-> blocked]
ArrayData(items) ==
    [kind |-> "array", items |-> items, has_text |-> FALSE, text |-> << >>,
     has_blocked |-> FALSE, blocked |-> << >>]

DataValues ==
    {NoData, ObjectData(FALSE, << >>, FALSE, << >>),
     ObjectData(FALSE, << >>, TRUE, <<"URL">>),
     ArrayData(<<"text">>), ArrayData(<<"txt">>)}
    \cup {ObjectData(TRUE, t, FALSE, << >>) : t \in ServiceTexts}
    \cup {ObjectData(TRUE, T_Plain, TRUE, b) : b \in BlockedValues}

---------------------------------------------------------------------------
(* AnalyzerEngine.analyze over the registry.                               *)

\* The custom recognizer's results for each text of the model, computed once.
SsnResultsByText ==
    [t \in CliTexts |-> SeqRange(create_custom_ssn_recognizer(t))]

\* What one recognizer returns for the text.
RecognizerOutput(rec, text) ==
    IF rec = CustomRecognizer
    THEN SsnResultsByText[text]
    ELSE {c \in detect : c.entity_type = SupportedEntity(rec) /\ c.end <= Len(text)}

\* AnalyzerEngine.analyze: run every recognizer of the registry that supports a
\* requested entity (all of them when entities is not given); an exception of
\* a recognizer is not caught; then remove_duplicates and the score filter.
AnalyzerAnalyze(registry, text, all_entities, entities, threshold) ==
    LET recs == {r \in registry : all_entities \/ SupportedEntity(r) \in entities}
    IN  IF recs \cap failing # {}
        THEN [raised |-> TRUE, results |-> << >>]
        ELSE [raised |-> FALSE,
              results |-> RemoveLowScores(
                  RemoveDuplicates(UNION {RecognizerOutput(r, text) : r \in recs}),
                  threshold)]

---------------------------------------------------------------------------
(* The one-shot command, pii-analyzer.py.                                  *)

score_threshold == 400
CliEntities == {"EMAIL_ADDRESS", "PHONE_NUMBER", "CUSTOM_SSN", "CREDIT_CARD"}

\* analyzer = AnalyzerEngine(); analyzer.registry.add_recognizer(custom_ssn)
CliRegistry == PredefinedRecognizers \cup {CustomRecognizer}

\* text[start:end]
Slice(text, start, end) == SubSeq(text, start + 1, end)

\* round(score, 2), on thousandths; a tie goes to the even hundredth.
Round2(score) ==
    LET q == score \div 10
        r == score % 10
    IN  IF r < 5 THEN q * 10
        ELSE IF r > 5 THEN q * 10 + 10
        ELSE IF q % 2 = 0 THEN q * 10 ELSE q * 10 + 10

CliEntity(text, result) ==
    [type |-> result.entity_type,
     text |-> Slice(text, result.start, result.end),
     score |-> Round2(result.score)]

\* The entities built in reverse order.
CliEntitiesReversed(text, results) ==
    [k \in 1..Len(results) |-> CliEntity(text, results[Len(results) + 1 - k])]

\* entities = []; for result in results: entities.append({...})
CliEntitiesOf(text, results) ==
    [k \in 1..Len(results) |-> CliEntity(text, results[k])]

CliHasPii(results) == Len(results) > 0

NoOutput == [kind |-> "none", has_pii |-> FALSE, entities |-> << >>]
ErrorOutput == [kind |-> "error", has_pii |-> FALSE, entities |-> << >>]

\* The call analyzer.analyze(text=..., language='en', entities=[...],
\* score_threshold=...) of analyze_text_for_pii.
CliAnalyzerCall(text, threshold) ==
    AnalyzerAnalyze(CliRegistry, text, FALSE, CliEntities, threshold)

\* if len(sys.argv) < 2: print the error object and exit 1.
CliMain ==
    /\ mode = "cli" /\ cliPc = "start"
    /\ IF Len(argv) < 1
       THEN /\ cliOut' = ErrorOutput
            /\ cliExit' = 1
            /\ cliPc' = "exited"
       ELSE /\ cliPc' = "analyze"
            /\ UNCHANGED <<cliOut, cliExit>>
    /\ UNCHANGED <<mode, detect, failing, argv, cliResults,
                   phase, analyzer, ready, healthAnswered, req, frame>>

\* result = analyze_text_for_pii(text); an exception of the analyzer is not
\* caught: the interpreter prints a traceback and exits with status 1.
analyze_text_for_pii ==
    /\ mode = "cli" /\ cliPc = "analyze"
    /\ LET text == argv[1]
           res == CliAnalyzerCall(text, score_threshold)
       IN  IF res.raised
           THEN /\ cliExit' = 1
                /\ cliPc' = "exited"
                /\ UNCHANGED <<cliResults, cliOut>>
           ELSE /\ cliResults' = res.results
                /\ cliOut' = [kind |-> "result",
                              has_pii |-> CliHasPii(res.results),
                              entities |-> CliEntitiesOf(text, res.results)]
                /\ cliPc' = "print"
                /\ UNCHANGED cliExit
    /\ UNCHANGED <<mode, detect, failing, argv,
                   phase, analyzer, ready, healthAnswered, req, frame>>

\* print(json.dumps(result)) and a normal exit.
CliPrint ==
    /\ mode = "cli" /\ cliPc = "print"
    /\ cliPc' = "exited"
    /\ cliExit' = 0
    /\ UNCHANGED <<mode, detect, failing, argv, cliResults, cliOut,
                   phase, analyzer, ready, healthAnswered, req, frame>>

---------------------------------------------------------------------------
(* The service, pii-service/app.py.                                        *)

\* Routes served whatever the state of the analyzer.
CanServeAlways == mode = "service"

\* The module body runs to its end before the app serves a route: requests
\* are handled only once nlp_engine and analyzer have been constructed.
CanServe == phase = "serving"

\* The handler's locals kept in one place shared by all calls.
SlotShared(r) == "r1"

\* Each call of analyze() has locals of its own.
Slot(r) == r

NoAnalyzer == [built |-> FALSE, registry |-> {}]
IdleRequest == [pc |-> "idle", data |-> NoData, analyzed |-> FALSE, status |-> 0,
                has_pii |-> FALSE, entities |-> << >>, error |-> ""]
EmptyFrame == [text |-> << >>, has_blocked |-> FALSE, blocked_types |-> << >>,
               results |-> << >>]

\* `not data`
Falsy(data) ==
    CASE data.kind = "null" -> TRUE
      [] data.kind = "object" -> ~(data.has_text \/ data.has_blocked)
      [] data.kind = "array" -> data.items = << >>

\* `'text' in data`
HasTextKey(data) ==
    CASE data.kind = "null" -> FALSE
      [] data.kind = "object" -> data.has_text
      [] data.kind = "array" -> "text" \in SeqRange(data.items)

\* `if blocked_types:`
BlockedGiven(has_blocked, blocked_types) == has_blocked /\ blocked_types # << >>

\* results = [r for r in results if r.entity_type in blocked_types]
FilterBlocked(results, has_blocked, blocked_types) ==
    IF BlockedGiven(has_blocked, blocked_types)
    THEN SelectSeq(results, LAMBDA r : r.entity_type \in SeqRange(blocked_types))
    ELSE results

ServiceEntity(r) ==
    [type |-> r.entity_type, score |-> r.score, start |-> r.start, end |-> r.end]

ServiceEntitiesOf(results) == [k \in 1..Len(results) |-> ServiceEntity(results[k])]

\* has_pii with the comparison off by one.
ServiceHasPiiOffByOne(results) == Len(results) >= 0

\* 'has_pii': len(results) > 0
ServiceHasPii(results) == Len(results) > 0

\* The call analyzer.analyze(text=text, language='en') of the handler: every
\* recognizer, the engine's default threshold of 0.
ServiceAnalyzerCall(text) == AnalyzerAnalyze(analyzer.registry, text, TRUE, {}, 0)

\* nlp_engine = SpacyNlpEngine(...); analyzer = AnalyzerEngine(...);
\* print("Analyzer ready")
StartupOk ==
    /\ mode = "service" /\ phase = "loading"
    /\ analyzer' = [built |-> TRUE, registry |-> PredefinedRecognizers]
    /\ ready' = TRUE
    /\ phase' = "serving"
    /\ UNCHANGED <<mode, detect, failing, argv, cliPc, cliResults, cliOut,
                   cliExit, healthAnswered, req, frame>>

\* The model fails to load: the exception ends the module body.
StartupFail ==
    /\ mode = "service" /\ phase = "loading"
    /\ phase' = "failed"
    /\ UNCHANGED <<mode, detect, failing, argv, cliPc, cliResults, cliOut,
                   cliExit, analyzer, ready, healthAnswered, req, frame>>

\* GET /health
health ==
    /\ mode = "service" /\ CanServe
    /\ healthAnswered' = TRUE
    /\ UNCHANGED <<mode, detect, failing, argv, cliPc, cliResults, cliOut,
                   cliExit, phase, analyzer, ready, req, frame>>

\* POST /analyze, lines 28-34: the body is read and checked, the locals set.
\* data['text'] on a JSON array raises TypeError, which Flask answers with 500.
AnalyzeReceive(r, data) ==
    /\ mode = "service" /\ CanServe
    /\ req[r].pc = "idle"
    /\ IF Falsy(data) \/ ~HasTextKey(data)
       THEN /\ req' = [req EXCEPT ![r] = [@ EXCEPT !.pc = "done", !.data = data,
                           !.status = 400, !.error = "Missing text field"]]
            /\ UNCHANGED frame
       ELSE IF data.kind # "object"
       THEN /\ req' = [req EXCEPT ![r] = [@ EXCEPT !.pc = "done", !.data = data,
                           !.status = 500, !.error = "Internal Server Error"]]
            /\ UNCHANGED frame
       ELSE /\ req' = [req EXCEPT ![r] = [@ EXCEPT !.pc = "analyze", !.data = data]]
            /\ frame' = [frame EXCEPT ![Slot(r)] =
                            [text |-> data.text, has_blocked |-> data.has_blocked,
                             blocked_types |-> data.blocked, results |-> << >>]]
    /\ UNCHANGED <<mode, detect, failing, argv, cliPc, cliResults, cliOut,
                   cliExit, phase, analyzer, ready, healthAnswered>>

\* Line 37: results = analyzer.analyze(text=text, language='en'); an exception
\* is not caught by the handler, and Flask answers with 500.
AnalyzeRun(r) ==
    /\ mode = "service" /\ CanServe
    /\ req[r].pc = "analyze"
    /\ LET res == ServiceAnalyzerCall(frame[Slot(r)].text)
       IN  IF res.raised
           THEN /\ req' = [req EXCEPT ![r] = [@ EXCEPT !.pc = "done",
                               !.analyzed = TRUE, !.status = 500,
                               !.error = "Internal Server Error"]]
                /\ UNCHANGED frame
           ELSE /\ req' = [req EXCEPT ![r] = [@ EXCEPT !.pc = "respond",
                               !.analyzed = TRUE]]
                /\ frame' = [frame EXCEPT ![Slot(r)].results = res.results]
    /\ UNCHANGED <<mode, detect, failing, argv, cliPc, cliResults, cliOut,
                   cliExit, phase, analyzer, ready, healthAnswered>>

\* Lines 39-53: the blocked-type filter, the entities and the response.
AnalyzeRespond(r) ==
    /\ mode = "service" /\ CanServe
    /\ req[r].pc = "respond"
    /\ LET f == frame[Slot(r)]
           results == FilterBlocked(f.results, f.has_blocked, f.blocked_types)
       IN  /\ req' = [req EXCEPT ![r] = [@ EXCEPT !.pc = "done", !.status = 200,
                          !.has_pii = ServiceHasPii(results),
                          !.entities = ServiceEntitiesOf(results)]]
           /\ frame' = [frame EXCEPT ![Slot(r)].results = results]
    /\ UNCHANGED <<mode, detect, failing, argv, cliPc, cliResults, cliOut,
                   cliExit, phase, analyzer, ready, healthAnswered>>

analyze ==
    \E r \in Requests :
        \/ \E data \in DataValues : AnalyzeReceive(r, data)
        \/ AnalyzeRun(r)
        \/ AnalyzeRespond(r)

---------------------------------------------------------------------------
(* The specification.                                                      *)

InitCli ==
    /\ mode = "cli"
    /\ argv \in {<< >>} \cup {<<t>> : t \in CliTexts}
    /\ IF argv = << >>
       THEN detect = {} /\ failing = {}
       ELSE /\ detect \in ExternalChoices(CliExternalTypes, CliExternalScores,
                                          Len(argv[1]))
            /\ failing \in {{}} \cup {{r} : r \in CliRegistry}

InitService ==
    /\ mode = "service"
    /\ argv = << >>
    /\ detect \in ExternalChoices(ServiceExternalTypes, ServiceExternalScores,
                                  Len(T_Plain))
    /\ failing \in {{}, {"UrlRecognizer"}}

Init ==
    /\ InitCli \/ InitService
    /\ cliPc = "start"
    /\ cliResults = << >>
    /\ cliOut = NoOutput
    /\ cliExit = -1
    /\ phase = "loading"
    /\ analyzer = NoAnalyzer
    /\ ready = FALSE
    /\ healthAnswered = FALSE
    /\ req = [r \in Requests |-> IdleRequest]
    /\ frame = [r \in Requests |-> EmptyFrame]

Next ==
    \/ CliMain
    \/ analyze_text_for_pii
    \/ CliPrint
    \/ StartupOk
    \/ StartupFail
    \/ health
    \/ analyze

Spec == Init /\ [][Next]_vars

---------------------------------------------------------------------------
(* Properties.                                                             *)

\* The one-shot command returned a result.
CliReturned == mode = "cli" /\ cliOut.kind = "result"
\* Request r was answered with an analysis.
Answered(r) == req[r].pc = "done" /\ req[r].status = 200

Indices(s) == 1..Len(s)

\* C1: has_pii is true exactly when the returned entity list is non-empty, in
\* the one-shot result and in the service response (after the blocked-type
\* filter).
C1_HasPiiIffEntities ==
    /\ CliReturned => (cliOut.has_pii <=> Len(cliOut.entities) > 0)
    /\ \A r \in Requests :
           Answered(r) => (req[r].has_pii <=> Len(req[r].entities) > 0)

\* C1 witness: the analyzer found entities, the blocked-type filter removed
\* them all, and the response says has_pii = false.
C1_Witness ==
    \E r \in Requests :
        /\ Answered(r)
        /\ req[r].data.has_blocked /\ req[r].data.blocked # << >>
        /\ ServiceAnalyzerCall(req[r].data.text).results # << >>
        /\ req[r].entities = << >>
        /\ ~req[r].has_pii

Detected(r) == ServiceAnalyzerCall(req[r].data.text).results

\* C3 (as claimed): when blocked_entity_types is supplied, the empty list
\* included, the response holds exactly the detected entities whose type is in
\* it; when it is absent, every detected entity.
C3_BlockFilter ==
    \A r \in Requests :
        Answered(r) =>
            LET blocked == SeqRange(req[r].data.blocked)
                returned == SeqRange(req[r].entities)
            IN  IF req[r].data.has_blocked
                THEN /\ \A e \in returned : e.type \in blocked
                     /\ \A d \in SeqRange(Detected(r)) :
                            d.entity_type \in blocked => ServiceEntity(d) \in returned
                ELSE returned = {ServiceEntity(d) : d \in SeqRange(Detected(r))}

\* C4 (as claimed): a body without the text field gets 400 with an error
\* message and the analyzer is not invoked; a body with the text field is
\* analysed and never gets 400; the service keeps serving.
C4_MissingText ==
    \A r \in Requests :
        req[r].pc = "done" =>
            /\ phase = "serving"
            /\ IF req[r].data.kind = "object" /\ req[r].data.has_text
               THEN req[r].analyzed /\ req[r].status # 400
               ELSE req[r].status = 400 /\ req[r].error # "" /\ ~req[r].analyzed

\* C5: no request is answered before the analyzer has been constructed, and
\* after a failed model load the process never reports readiness nor answers.
C5_FailClosed ==
    /\ (healthAnswered \/ \E r \in Requests : req[r].pc # "idle")
           => (analyzer.built /\ ready /\ phase = "serving")
    /\ phase = "failed" =>
           /\ ~ready /\ ~analyzer.built
           /\ ~healthAnswered
           /\ \A r \in Requests : req[r].pc = "idle"

\* C5 witness: the model failed to load.
C5_Witness == mode = "service" /\ phase = "failed"

\* The CUSTOM_SSN entities of the one-shot result.
SsnEntities == {k \in Indices(cliOut.entities) : cliOut.entities[k].type = "CUSTOM_SSN"}

\* C6 (as claimed): "SSN: 123-45-6789" yields exactly one SSN entity, covering
\* the numeric group only, with score at least 0.9.
C6_SsnNumericGroupOnly ==
    (CliReturned /\ argv = <<T_SsnContext>>) =>
        /\ Cardinality(SsnEntities) = 1
        /\ \A k \in SsnEntities :
               /\ cliResults[k].start = ContextGroupStart(argv[1], 0)
               /\ cliOut.entities[k].text =
                      Slice(argv[1], ContextGroupStart(argv[1], 0), Len(argv[1]))
               /\ cliOut.entities[k].score >= 900

Thresholds == {0, 400, 700, 900, 1000}

\* C7: raising score_threshold never returns more entities for the same text,
\* and every returned entity has a score of at least the threshold in force
\* (0.4 in the one-shot command).
C7_ThresholdMonotone ==
    CliReturned =>
        LET at == [t \in Thresholds |-> CliAnalyzerCall(argv[1], t).results]
        IN  /\ \A k \in Indices(cliOut.entities) :
                   cliOut.entities[k].score >= score_threshold
            /\ \A k \in Indices(cliResults) : cliResults[k].score >= score_threshold
            /\ \A t \in Thresholds : \A c \in SeqRange(at[t]) : c.score >= t
            /\ \A t1, t2 \in Thresholds : t1 <= t2 => Len(at[t2]) <= Len(at[t1])

\* C7 witness: a candidate below 0.4 was detected and is not returned, and a
\* higher threshold would return fewer entities than were returned.
C7_Witness ==
    /\ CliReturned
    /\ \E c \in detect : c.score < score_threshold
    /\ \E t \in Thresholds :
           Len(CliAnalyzerCall(argv[1], t).results) < Len(cliResults)

\* C8 (as claimed): when one recognizer fails, the analysis still completes
\* with a result.
C8_FailureIsolated ==
    /\ (mode = "cli" /\ cliPc = "exited" /\ argv # << >>) => cliOut.kind = "result"
    /\ \A r \in Requests :
           (req[r].pc = "done" /\ req[r].analyzed) => req[r].status = 200

StartAscending(s) == \A i, j \in Indices(s) : i < j => s[i].start <= s[j].start

\* C9 (as claimed): returned entities are ordered by start offset ascending.
C9_StartAscending ==
    /\ CliReturned => StartAscending(cliResults)
    /\ \A r \in Requests : Answered(r) => StartAscending(req[r].entities)

\* Where x stands in sequence s (0 when it does not).
IndexOf(s, x) == IF \E k \in Indices(s) : s[k] = x
                 THEN CHOOSE k \in Indices(s) : s[k] = x ELSE 0

\* C9 (amended): the output keeps the analyzer's result order one-to-one (the
\* i-th entity is built from the i-th result; the blocked-type filter keeps
\* the relative order); it is not sorted by start.
C9_OrderKept ==
    /\ CliReturned =>
           /\ Len(cliOut.entities) = Len(cliResults)
           /\ \A k \in Indices(cliResults) :
                  cliOut.entities[k] = CliEntity(argv[1], cliResults[k])
           /\ cliResults = CliAnalyzerCall(argv[1], score_threshold).results
    /\ \A r \in Requests :
           Answered(r) =>
               LET found == ServiceEntitiesOf(Detected(r))
               IN  /\ \A k \in Indices(req[r].entities) :
                          IndexOf(found, req[r].entities[k]) > 0
                   /\ \A i, j \in Indices(req[r].entities) :
                          i < j => IndexOf(found, req[r].entities[i])
                                       < IndexOf(found, req[r].entities[j])

\* C9 witness: two entities were returned and the first starts after the second.
C9_Witness ==
    \/ /\ CliReturned
       /\ Len(cliOut.entities) >= 2
       /\ ~StartAscending(cliResults)
    \/ \E r \in Requests :
           /\ Answered(r)
           /\ Len(req[r].entities) >= 2
           /\ ~StartAscending(req[r].entities)

\* The response a request with this body gets when it is handled alone.
SoloResponse(data) ==
    IF Falsy(data) \/ ~HasTextKey(data)
    THEN [status |-> 400, has_pii |-> FALSE, entities |-> << >>,
          error |-> "Missing text field"]
    ELSE IF data.kind # "object" \/ ServiceAnalyzerCall(data.text).raised
    THEN [status |-> 500, has_pii |-> FALSE, entities |-> << >>,
          error |-> "Internal Server Error"]
    ELSE LET results == FilterBlocked(ServiceAnalyzerCall(data.text).results,
                                      data.has_blocked, data.blocked)
         IN  [status |-> 200, has_pii |-> Len(results) > 0,
              entities |-> ServiceEntitiesOf(results), error |-> ""]

ResponseOf(r) == [status |-> req[r].status, has_pii |-> req[r].has_pii,
                  entities |-> req[r].entities, error |-> req[r].error]

\* C10: under any interleaving of /analyze handlers the analyzer built at
\* startup is left as it was, and every response equals the response the same
\* request gets alone.
C10_RequestsIsolated ==
    /\ phase = "serving" =>
           analyzer = [built |-> TRUE, registry |-> PredefinedRecognizers]
    /\ \A r \in Requests : req[r].pc = "done" => ResponseOf(r) = SoloResponse(req[r].data)

\* C10 witness: a request was answered with entities while another request,
\* with another body, was between its analysis and its response.
C10_Witness ==
    \E r, q \in Requests :
        /\ r # q
        /\ Answered(r) /\ req[r].entities # << >>
        /\ req[q].pc = "respond"
        /\ req[q].data # req[r].data

====
